---- MODULE Spec2Model ----
(***************************************************************************)
(* A model of the Synology Photos client library (SynologyPhotosLib.py)    *)
(* and of the scripts built on it (scripts/AddTags.py,                     *)
(* scripts/UpdateTagsList.py).                                             *)
(*                                                                         *)
(* A behaviour is one run of one program: either a single call of one      *)
(* library function, or one run of a script.  Every step is one HTTP       *)
(* exchange with the vendor service together with all the code the program *)
(* runs up to its next HTTP request (or up to its end).  The vendor        *)
(* service holds a forest of folders, the items of each folder and a list  *)
(* of tags; it answers a list request with the entries offset+1 ..         *)
(* offset+limit of the list asked for, and it may answer any request with  *)
(* a non-200 status or with its success flag cleared.                      *)
(*                                                                         *)
(* Taken for granted: the scripts' import of the library resolves,         *)
(* SYNOLOGY_PHOTO_URL names a server that answers every request with an    *)
(* HTTP response whose body is the vendor's JSON (so requests.get and      *)
(* response.json() raise nothing), and a response with the success flag    *)
(* cleared carries an error code.                                          *)
(***************************************************************************)
EXTENDS Integers, Sequences, FiniteSets, TLC

VARIABLES
    svc,       \* what the vendor service holds (never changed by a run)
    env,       \* the environment variables that are set and non-empty
    prog,      \* the program that runs: "lib", "AddTags" or "UpdateTagsList"
    op,        \* the library call in progress (its name and its arguments)
    pc,        \* the function whose HTTP request is next, or "done" / "exited"
    stack,     \* the frames of the get_items recursion, outermost first
    log,       \* the HTTP exchanges so far: request, response, calling team
    from,      \* Len(log) when the library call in progress began
    result,    \* the outcome of the last library call that ended
    sid,       \* the script's variable sid
    team,      \* the index in team_folders_id of the team being processed
    items,     \* process_team's variable items
    exitCode,  \* the process's exit code, once pc = "exited"
    stdout,    \* the lines printed to standard output
    stderr     \* the lines printed to standard error

vars == <<svc, env, prog, op, pc, stack, log, from, result, sid, team, items,
          exitCode, stdout, stderr>>

(***************************************************************************)
(* Bounds of the model.                                                    *)
(***************************************************************************)
MaxFolders == 3    \* folders 1..MaxFolders form an arbitrary forest
MaxItems == 1      \* each of them holds 0..MaxItems items
MaxTags == 2       \* the service's tag list ends with 0..MaxTags team tags

(***************************************************************************)
(* Constants of the program.                                               *)
(***************************************************************************)
HttpOk == 200
FolderLimit == 100
ItemLimit == 100
TagLimit == 100

\* The team -> folder mapping of the batch tagger, in mapping order (the
\* program's has 15 entries; the folder ids are renamed 1, 2).
team_folders_id ==
    << [team |-> "U20F", folder |-> 1], [team |-> "U18M-2", folder |-> 2] >>

TeamNames == [i \in 1..Len(team_folders_id) |-> team_folders_id[i].team]

required_env ==
    <<"SYNOLOGY_PHOTO_USERNAME", "SYNOLOGY_PHOTO_PASSWORD", "SYNOLOGY_PHOTO_URL">>

(***************************************************************************)
(* Sequences.                                                              *)
(***************************************************************************)
Min(a, b) == IF a <= b THEN a ELSE b

Range(s) == {s[i] : i \in 1..Len(s)}

Last(s) == s[Len(s)]

NoDup(s) == \A i, j \in 1..Len(s) : s[i] = s[j] => i = j

RECURSIVE Flatten(_)
Flatten(ss) == IF ss = <<>> THEN <<>> ELSE Head(ss) \o Flatten(Tail(ss))

\* The elements of s at the indices in the set I, in order.
SelectIn(s, I) ==
    LET RECURSIVE Sel(_)
        Sel(i) == IF i > Len(s) THEN <<>>
                  ELSE IF i \in I THEN <<s[i]>> \o Sel(i + 1) ELSE Sel(i + 1)
    IN Sel(1)

(***************************************************************************)
(* The vendor service.                                                     *)
(*   svc.parent[f]   the parent of folder f in 1..MaxFolders, 0 for a root *)
(*   svc.count[f]    the number of items of folder f in 1..MaxFolders      *)
(*   svc.padItems    further items of folder 1                             *)
(*   svc.padFolders  further subfolders of folder 1 (one item each),       *)
(*                   numbered from MaxFolders + 1 and listed first         *)
(*   svc.padTags     tags named "other" at the head of the tag list        *)
(*   svc.tagNames    the names of the tags that follow them                *)
(***************************************************************************)
Folders == 1..(MaxFolders + svc.padFolders)

ParentOf(f) == IF f <= MaxFolders THEN svc.parent[f] ELSE 1

CountOf(f) ==
    IF f > MaxFolders THEN 1
    ELSE svc.count[f] + (IF f = 1 THEN svc.padItems ELSE 0)

\* The subfolders of f in the order the service lists them.
ChildrenOf(f) ==
    (IF f = 1 THEN [i \in 1..svc.padFolders |-> [id |-> MaxFolders + i]] ELSE <<>>)
    \o SelectIn([g \in 1..MaxFolders |-> [id |-> g]],
                {g \in 1..MaxFolders : svc.parent[g] = f})

\* The items of f in the order the service lists them: item k of folder f
\* has the id <<f, k>>.
ItemsOf(f) == [k \in 1..CountOf(f) |-> [id |-> <<f, k>>]]

\* The tags in the order the service lists them; a tag's id is its rank.
TagsOf ==
    [i \in 1..(svc.padTags + Len(svc.tagNames)) |->
        [id |-> i,
         name |-> IF i <= svc.padTags THEN "other" ELSE svc.tagNames[i - svc.padTags]]]

\* The service's answer to a list request: at most limit entries from offset.
Page(list, offset, limit) ==
    SubSeq(list, offset + 1, Min(Len(list), offset + limit))

(***************************************************************************)
(* HTTP requests, responses and the outcome of a library call.             *)
(***************************************************************************)
Request(api, method, s, id, offset, limit, item_ids, tag_ids, account, passwd) ==
    [api |-> api, method |-> method, sid |-> s, id |-> id, offset |-> offset,
     limit |-> limit, item_ids |-> item_ids, tag_ids |-> tag_ids,
     account |-> account, passwd |-> passwd]

\* What the service may answer, whatever the request: any of the statuses,
\* the success flag set or cleared, an error code when it is cleared.
Statuses == {HttpOk, 500}

ErrorCodes == {119}

Responses ==
    {[status |-> s, success |-> TRUE, code |-> 0] : s \in Statuses}
    \cup {[status |-> s, success |-> FALSE, code |-> c] :
            s \in Statuses, c \in ErrorCodes}

\* The session identifiers a login may return.
Sids == {"sidA", "sidB"}

\* One entry of the log: the request, the response, the sid the response
\* carried (a login's) and the team for which process_team issued it.
Exchange(req, r, newSid) ==
    [req |-> req, resp |-> r, sid |-> newSid,
     team |-> IF prog = "AddTags" THEN team ELSE 0]

\* A SynologyPhotoError: its message's text and what is formatted into it.
Error(msg, code, name) == [msg |-> msg, code |-> code, name |-> name]

NoError == Error("", 0, "")

Return(v) == [kind |-> "return", value |-> v, err |-> NoError]

Raise(e) == [kind |-> "raise", value |-> <<>>, err |-> e]

\* The two checks every library function makes on a response: the error it
\* raises, NoError when it raises none.
FailureStatusIgnored(r, what) ==
    IF ~r.success THEN Error(what, r.code, "") ELSE NoError

FailureCodesSwapped(r, what) ==
    IF r.status # HttpOk THEN Error("Request failed", r.code, "")
    ELSE IF ~r.success THEN Error(what, r.status, "")
    ELSE NoError

Failure(r, what) ==
    IF r.status # HttpOk THEN Error("Request failed", r.status, "")
    ELSE IF ~r.success THEN Error(what, r.code, "")
    ELSE NoError

(***************************************************************************)
(* The calls of the library functions: name and arguments.                 *)
(***************************************************************************)
NoCall ==
    [name |-> "", sid |-> "", folder_id |-> 0, recursive |-> FALSE,
     tag_name |-> "", item_ids |-> <<>>, tag_ids |-> <<>>,
     username |-> "", password |-> ""]

authenticate_call(username, password) ==
    [NoCall EXCEPT !.name = "authenticate", !.username = username,
                   !.password = password]

get_api_info_call == [NoCall EXCEPT !.name = "get_api_info"]

get_folders_call(s, folder_id) ==
    [NoCall EXCEPT !.name = "get_folders", !.sid = s, !.folder_id = folder_id]

get_items_call(s, folder_id, recursive) ==
    [NoCall EXCEPT !.name = "get_items", !.sid = s, !.folder_id = folder_id,
                   !.recursive = recursive]

get_all_tags_call(s) == [NoCall EXCEPT !.name = "get_all_tags", !.sid = s]

get_tag_call(s, tag_name) ==
    [NoCall EXCEPT !.name = "get_tag", !.sid = s, !.tag_name = tag_name]

add_tag_call(s, item_ids, tag_ids) ==
    [NoCall EXCEPT !.name = "add_tag", !.sid = s, !.item_ids = item_ids,
                   !.tag_ids = tag_ids]

\* A frame of get_items: its folder, its list items, and the folders its
\* loop has still to visit.
Frame(folder_id) == [folder_id |-> folder_id, items |-> <<>>, todo |-> <<>>]

\* Beginning a library call: its first HTTP request is next.
Call(c) ==
    /\ op' = c
    /\ from' = Len(log')
    /\ pc' = c.name
    /\ stack' = IF c.name = "get_items" THEN <<Frame(c.folder_id)>> ELSE <<>>

(***************************************************************************)
(* The scripts, from the point where a library call of theirs has ended.   *)
(***************************************************************************)
Line(text, arg) == [text |-> text, arg |-> arg]

ErrLine(text, name, e, missing) ==
    [text |-> text, team |-> name, err |-> e, missing |-> missing]

Exit(code) ==
    /\ pc' = "exited"
    /\ exitCode' = code
    /\ op' = NoCall
    /\ stack' = <<>>
    /\ from' = Len(log')

\* item['id'] for item in items
ItemIdsFirstDropped(its) == [i \in 1..(Len(its) - 1) |-> its[i + 1].id]

ItemIds(its) == [i \in 1..Len(its) |-> its[i].id]

\* The for loop of AddTags at team i: process_team begins for it, or the
\* loop is over and the script ends.  out is what has been printed so far.
ForTeams(i, s, out) ==
    IF i <= Len(team_folders_id)
    THEN /\ team' = i
         /\ stdout' = Append(out, Line("Processing team", team_folders_id[i].team))
         /\ Call(get_items_call(s, team_folders_id[i].folder, TRUE))
         /\ UNCHANGED exitCode
    ELSE /\ stdout' = Append(out, Line("All teams processed successfully", ""))
         /\ Exit(0)
         /\ UNCHANGED team

\* The except clause of process_team: the error is printed and process_team
\* returns, so the loop goes on with the next team.
TeamFailedFatal(e) ==
    /\ stderr' = Append(stderr, ErrLine("Fatal error", "", e, <<>>))
    /\ Exit(1)
    /\ UNCHANGED <<sid, team, items, stdout>>

TeamFailed(e) ==
    /\ stderr' = Append(stderr,
                   ErrLine("Error processing team", team_folders_id[team].team, e, <<>>))
    /\ ForTeams(team + 1, sid, stdout)
    /\ UNCHANGED <<sid, items>>

\* return data['data']['sid']
LoginSidFixed(s) == "sidA"

LoginSid(s) == s

AddTagsResume(o) ==
    CASE op.name = "authenticate" ->
           IF o.kind = "return"
           THEN /\ sid' = o.value
                /\ ForTeams(1, o.value, Append(stdout, Line("Processing teams", "")))
                /\ UNCHANGED <<items, stderr>>
           ELSE /\ stderr' = Append(stderr, ErrLine("Fatal error", "", o.err, <<>>))
                /\ Exit(1)
                /\ UNCHANGED <<sid, team, items, stdout>>
      [] op.name = "get_items" ->
           IF o.kind = "return"
           THEN /\ items' = o.value
                /\ Call(get_tag_call(sid, team_folders_id[team].team))
                /\ UNCHANGED <<sid, team, exitCode, stdout, stderr>>
           ELSE TeamFailed(o.err)
      [] op.name = "get_tag" ->
           IF o.kind = "return"
           THEN /\ Call(add_tag_call(sid, ItemIds(items), <<o.value.id>>))
                /\ UNCHANGED <<sid, team, items, exitCode, stdout, stderr>>
           ELSE TeamFailed(o.err)
      [] op.name = "add_tag" ->
           IF o.kind = "return"
           THEN /\ ForTeams(team + 1, sid, stdout)
                /\ UNCHANGED <<sid, items, stderr>>
           ELSE TeamFailed(o.err)

UpdateTagsListResume(o) ==
    CASE op.name = "authenticate" ->
           IF o.kind = "return"
           THEN /\ sid' = o.value
                /\ Call(get_all_tags_call(o.value))
                /\ UNCHANGED <<team, items, exitCode, stdout, stderr>>
           ELSE /\ stderr' = Append(stderr, ErrLine("Error", "", o.err, <<>>))
                /\ Exit(1)
                /\ UNCHANGED <<sid, team, items, stdout>>
      [] op.name = "get_all_tags" ->
           IF o.kind = "return"
           THEN /\ stdout' = Append(stdout, Line("Tags info saved to", "tags_info.json"))
                /\ Exit(0)
                /\ UNCHANGED <<sid, team, items, stderr>>
           ELSE /\ stderr' = Append(stderr, ErrLine("Error", "", o.err, <<>>))
                /\ Exit(1)
                /\ UNCHANGED <<sid, team, items, stdout>>

\* A library call ends with outcome o (log' holds its last exchange): a
\* single call is done, a script goes on from the call.
Finish(o) ==
    /\ result' = [op |-> op, from |-> from, to |-> Len(log'), kind |-> o.kind,
                  value |-> o.value, err |-> o.err]
    /\ UNCHANGED <<svc, env, prog>>
    /\ CASE prog = "lib" ->
              /\ pc' = "done"
              /\ stack' = <<>>
              /\ UNCHANGED <<op, from, sid, team, items, exitCode, stdout, stderr>>
         [] prog = "AddTags" -> AddTagsResume(o)
         [] prog = "UpdateTagsList" -> UpdateTagsListResume(o)

\* A library call goes on to its next HTTP request.
GoOn(next, stk) ==
    /\ pc' = next
    /\ stack' = stk
    /\ UNCHANGED <<svc, env, prog, op, from, result, sid, team, items, exitCode,
                   stdout, stderr>>

(***************************************************************************)
(* The library functions.  Each action is one HTTP request of the function *)
(* named, the service's response, and the code that follows it.            *)
(***************************************************************************)
authenticate ==
    /\ pc = "authenticate"
    /\ \E r \in Responses, s \in Sids :
         LET req == Request("SYNO.API.Auth", "login", "", 0, 0, 0, <<>>, <<>>,
                            op.username, op.password)
             e == Failure(r, "Authentication failed")
             new == IF e = NoError THEN s ELSE ""
         IN /\ log' = Append(log, Exchange(req, r, new))
            /\ IF e # NoError THEN Finish(Raise(e)) ELSE Finish(Return(LoginSid(new)))

get_api_info ==
    /\ pc = "get_api_info"
    /\ \E r \in Responses :
         LET req == Request("SYNO.API.Info", "query", "", 0, 0, 0, <<>>, <<>>, "", "")
             e == Failure(r, "Failed to get API Info")
         IN /\ log' = Append(log, Exchange(req, r, ""))
            /\ IF e # NoError THEN Finish(Raise(e)) ELSE Finish(Return("api info"))

\* items.extend(...)
Extend(its, more) == its \o more

\* if recursive:
RecursiveAlways(c) == TRUE

Recursive(c) == c.recursive

\* The for loop of get_items in the innermost frame of stk, whose list of
\* folders is known: the loop calls get_items for the next folder (a frame
\* is pushed: its request is next), or it is over and the frame returns its
\* items to the frame below, whose loop goes on.
RECURSIVE Unwind(_)
Unwind(stk) ==
    LET n == Len(stk)
        top == stk[n]
    IN IF top.todo # <<>>
       THEN [done |-> FALSE, items |-> <<>>,
             stack |-> Append([stk EXCEPT ![n].todo = Tail(top.todo)],
                              Frame(Head(top.todo).id))]
       ELSE IF n = 1
       THEN [done |-> TRUE, items |-> top.items, stack |-> <<>>]
       ELSE Unwind([SubSeq(stk, 1, n - 1) EXCEPT
                       ![n - 1].items = Extend(@, top.items)])

get_folders ==
    /\ pc = "get_folders"
    /\ \E r \in Responses :
         LET f == IF op.name = "get_items" THEN Last(stack).folder_id ELSE op.folder_id
             req == Request("SYNO.Foto.Browse.Folder", "list", op.sid, f, 0,
                            FolderLimit, <<>>, <<>>, "", "")
             e == Failure(r, "Failed to get root folders")
             got == Page(ChildrenOf(f), req.offset, req.limit)
             w == Unwind([stack EXCEPT ![Len(stack)].todo = got])
         IN /\ log' = Append(log, Exchange(req, r, ""))
            /\ IF e # NoError THEN Finish(Raise(e))
               ELSE IF op.name = "get_folders" THEN Finish(Return(got))
               ELSE IF w.done THEN Finish(Return(w.items))
               ELSE GoOn("get_items", w.stack)

get_items ==
    /\ pc = "get_items"
    /\ \E r \in Responses :
         LET f == Last(stack).folder_id
             req == Request("SYNO.Foto.Browse.Item", "list", op.sid, f, 0,
                            ItemLimit, <<>>, <<>>, "", "")
             e == Failure(r, "Failed to get items")
             got == Page(ItemsOf(f), req.offset, req.limit)
         IN /\ log' = Append(log, Exchange(req, r, ""))
            /\ IF e # NoError THEN Finish(Raise(e))
               ELSE IF Recursive(op)
               THEN GoOn("get_folders", [stack EXCEPT ![Len(stack)].items = got])
               ELSE Finish(Return(got))

\* The request of get_all_tags and its outcome.
TagListRequest(s) ==
    Request("SYNO.Foto.Browse.GeneralTag", "list", s, 0, 0, TagLimit,
            <<>>, <<>>, "", "")

TagListOutcome(r) ==
    LET e == Failure(r, "Failed to get all tags")
    IN IF e # NoError THEN Raise(e)
       ELSE Return(Page(TagsOf, TagListRequest(op.sid).offset,
                        TagListRequest(op.sid).limit))

get_all_tags ==
    /\ pc = "get_all_tags"
    /\ \E r \in Responses :
         /\ log' = Append(log, Exchange(TagListRequest(op.sid), r, ""))
         /\ Finish(TagListOutcome(r))

\* The loop of get_tag over the tags get_all_tags returned.
FindTag(tags, tag_name) ==
    IF \E i \in 1..Len(tags) : tags[i].name = tag_name
    THEN Return(tags[CHOOSE i \in 1..Len(tags) :
                        /\ tags[i].name = tag_name
                        /\ \A j \in 1..(i - 1) : tags[j].name # tag_name])
    ELSE Raise(Error("Tag not found", 0, tag_name))

get_tag ==
    /\ pc = "get_tag"
    /\ \E r \in Responses :
         LET o == TagListOutcome(r)
         IN /\ log' = Append(log, Exchange(TagListRequest(op.sid), r, ""))
            /\ IF o.kind = "raise" THEN Finish(o)
               ELSE Finish(FindTag(o.value, op.tag_name))

add_tag ==
    /\ pc = "add_tag"
    /\ \E r \in Responses :
         LET req == Request("SYNO.Foto.Browse.Item", "add_tag", op.sid, 0, 0, 0,
                            op.item_ids, op.tag_ids, "", "")
             e == Failure(r, "Failed to add tags")
         IN /\ log' = Append(log, Exchange(req, r, ""))
            /\ IF e # NoError THEN Finish(Raise(e)) ELSE Finish(Return(<<>>))

(***************************************************************************)
(* The scripts' first steps.                                               *)
(***************************************************************************)
\* [var for var in required_env if not os.getenv(var)]
missing_envUrlUnchecked ==
    SelectIn(required_env,
             {i \in 1..Len(required_env) :
                required_env[i] \notin env /\ required_env[i] # "SYNOLOGY_PHOTO_URL"})

missing_env ==
    SelectIn(required_env, {i \in 1..Len(required_env) : required_env[i] \notin env})

AddTagsMain ==
    /\ prog = "AddTags"
    /\ pc = "main"
    /\ log' = log
    /\ UNCHANGED <<svc, env, prog, result, sid, team, items, stdout>>
    /\ IF missing_env # <<>>
       THEN /\ stderr' = Append(stderr,
                ErrLine("Missing required environment variables", "", NoError,
                        missing_env))
            /\ Exit(1)
       ELSE /\ Call(authenticate_call("username", "password"))
            /\ UNCHANGED <<exitCode, stderr>>

UpdateTagsListMain ==
    /\ prog = "UpdateTagsList"
    /\ pc = "main"
    /\ log' = log
    /\ Call(authenticate_call("username", "password"))
    /\ UNCHANGED <<svc, env, prog, result, sid, team, items, exitCode, stdout, stderr>>

(***************************************************************************)
(* The runs checked: a program, its call (for a single library call), the  *)
(* environment and what the service holds.                                 *)
(***************************************************************************)
Forests == {p \in [1..MaxFolders -> 0..(MaxFolders - 1)] : \A f \in 1..MaxFolders : p[f] < f}

Counts == [1..MaxFolders -> 0..MaxItems]

EqualCounts == {[f \in 1..MaxFolders |-> k] : k \in 0..MaxItems}

TagNameLists ==
    UNION {[1..n -> Range(TeamNames)] : n \in 0..MaxTags}

\* Sizes just below and at a page's limit.
PadSizes(limit) == {limit - 1, limit}

Service(p, c, padItems, padFolders, padTags, tagNames) ==
    [parent |-> p, count |-> c, padItems |-> padItems, padFolders |-> padFolders,
     padTags |-> padTags, tagNames |-> tagNames]

Flat == [f \in 1..MaxFolders |-> 0]

OneEach == [f \in 1..MaxFolders |-> 1]

EmptyService == Service(Flat, OneEach, 0, 0, 0, <<>>)

\* Forests of folders: every forest with every number of items, and every
\* forest with folder 1 holding about a page of items or of subfolders.
FolderServices ==
    {Service(p, c, 0, 0, 0, <<>>) : p \in Forests, c \in Counts}
    \cup {Service(p, c, n, 0, 0, <<>>) :
            p \in Forests, c \in EqualCounts, n \in PadSizes(ItemLimit)}
    \cup {Service(p, OneEach, 0, n, 0, <<>>) :
            p \in Forests, n \in PadSizes(FolderLimit)}

\* Tag lists: every short list of team tags, alone or after about a page of
\* other tags.
TagServices ==
    {Service(Flat, OneEach, 0, 0, n, t) :
        n \in {0} \cup PadSizes(TagLimit), t \in TagNameLists}

LibRuns ==
    {[call |-> authenticate_call("username", "password"), svc |-> EmptyService],
     [call |-> get_api_info_call, svc |-> EmptyService]}
    \cup {[call |-> get_folders_call("sidA", 1), svc |-> v] : v \in FolderServices}
    \cup {[call |-> get_items_call("sidA", 1, b), svc |-> v] :
            b \in BOOLEAN, v \in FolderServices}
    \cup {[call |-> get_all_tags_call("sidA"), svc |-> v] : v \in TagServices}
    \cup {[call |-> get_tag_call("sidA", n), svc |-> v] :
            n \in Range(TeamNames), v \in TagServices}
    \cup {[call |-> add_tag_call("sidA", ids, <<1>>), svc |-> EmptyService] :
            ids \in {<<>>, << <<1, 1>> >>}}

\* What the batch tagger runs against: every forest with a tag for each
\* team, folder 1 with about a page of items, and every tag list.
TaggerServices ==
    {Service(p, OneEach, 0, 0, 0, TeamNames) : p \in Forests}
    \cup {Service(Flat, OneEach, n, 0, 0, TeamNames) : n \in PadSizes(ItemLimit)}
    \cup {Service(Flat, OneEach, 0, 0, n, t) :
            n \in {0, TagLimit}, t \in TagNameLists}

Start(p, e, v) ==
    /\ svc = v
    /\ env = e
    /\ prog = p
    /\ op = NoCall
    /\ pc = "main"
    /\ stack = <<>>
    /\ log = <<>>
    /\ from = 0
    /\ result = [op |-> NoCall, from |-> 0, to |-> 0, kind |-> "none",
                 value |-> <<>>, err |-> NoError]
    /\ sid = ""
    /\ team = 0
    /\ items = <<>>
    /\ exitCode = 0
    /\ stdout = <<>>
    /\ stderr = <<>>

Init ==
    \/ \E e \in SUBSET Range(required_env) :
         \E v \in (IF e = Range(required_env) THEN TaggerServices ELSE {EmptyService}) :
            Start("AddTags", e, v)
    \/ \E v \in TagServices : Start("UpdateTagsList", Range(required_env), v)
    \/ \E v \in {x.svc : x \in LibRuns} : Start("lib", Range(required_env), v)

\* A single library call begins.
LibMain ==
    /\ prog = "lib"
    /\ pc = "main"
    /\ log' = log
    /\ \E x \in LibRuns : x.svc = svc /\ Call(x.call)
    /\ UNCHANGED <<svc, env, prog, result, sid, team, items, exitCode, stdout, stderr>>

Next ==
    \/ LibMain
    \/ AddTagsMain
    \/ UpdateTagsListMain
    \/ authenticate
    \/ get_api_info
    \/ get_folders
    \/ get_items
    \/ get_all_tags
    \/ get_tag
    \/ add_tag

Spec == Init /\ [][Next]_vars

\* The program is sequential and runs as long as it has a step to take.
FairSpec == Spec /\ WF_vars(Next)

(***************************************************************************)
(* What the claims speak of.                                               *)
(***************************************************************************)
Done == pc \in {"done", "exited"}

\* The exchange was answered with status 200 and the success flag set.
Ok(x) == x.resp.status = HttpOk /\ x.resp.success

\* A library call has ended; result tells which and how.
Ended == result.kind # "none"

\* The exchanges of the library call that ended last.
CallLog == SubSeq(log, result.from + 1, result.to)

Requests(l) == [i \in 1..Len(l) |-> l[i].req]

NotFound == result.kind = "raise" /\ result.err.msg = "Tag not found"

\* Folder g is folder f or a descendant of f.
RECURSIVE IsUnder(_, _)
IsUnder(g, f) == g = f \/ (ParentOf(g) # 0 /\ IsUnder(ParentOf(g), f))

Subtree(f) == {g \in Folders : IsUnder(g, f)}

SubtreeItems(f) == UNION {Range(ItemsOf(g)) : g \in Subtree(f)}

\* Every list of the subtree of f fits the one page the library asks for.
FitsPages(f) ==
    \A g \in Subtree(f) :
        CountOf(g) <= ItemLimit /\ Len(ChildrenOf(g)) <= FolderLimit

\* The folders of the subtree of f in depth-first order, every subfolder
\* of a folder followed (all) or only those on the first page of its list.
RECURSIVE DepthFirst(_, _)
DepthFirst(f, all) ==
    LET sub == IF all THEN ChildrenOf(f) ELSE Page(ChildrenOf(f), 0, FolderLimit)
    IN <<f>> \o Flatten([i \in 1..Len(sub) |-> DepthFirst(sub[i].id, all)])

\* The first page of items of each folder of fs, in order.
FirstPages(fs) ==
    Flatten([i \in 1..Len(fs) |-> Page(ItemsOf(fs[i]), 0, ItemLimit)])

\* An item-list request then a folder-list request for each folder of fs.
WalkRequests(s, fs) ==
    Flatten([i \in 1..Len(fs) |->
        << Request("SYNO.Foto.Browse.Item", "list", s, fs[i], 0, ItemLimit,
                   <<>>, <<>>, "", ""),
           Request("SYNO.Foto.Browse.Folder", "list", s, fs[i], 0, FolderLimit,
                   <<>>, <<>>, "", "") >>])

\* What the service's response to the call's request holds, for the calls
\* that return it as it is.
Payload(c, x) ==
    CASE c.name = "authenticate" -> x.sid
      [] c.name = "get_api_info" -> "api info"
      [] c.name = "get_folders" -> Page(ChildrenOf(c.folder_id), 0, FolderLimit)
      [] c.name = "get_items" -> Page(ItemsOf(c.folder_id), 0, ItemLimit)
      [] c.name = "get_all_tags" -> Page(TagsOf, 0, TagLimit)
      [] c.name = "add_tag" -> <<>>

SinglePayload(c) == c.name # "get_tag" /\ ~(c.name = "get_items" /\ c.recursive)

(***************************************************************************)
(* C1.  Whatever the library function and the responses: when a response   *)
(* has a status other than 200 or the success flag cleared, the call       *)
(* raises SynologyPhotoError and returns no value; a call that returns     *)
(* has had status 200 and the success flag set on every response, and      *)
(* returns the payload of the response.                                    *)
(***************************************************************************)
C1_FailureRaises ==
    Ended =>
        /\ (\E i \in 1..Len(CallLog) : ~Ok(CallLog[i])) =>
              /\ result.kind = "raise"
              /\ result.err # NoError
              /\ result.value = <<>>
        /\ result.kind = "return" =>
              /\ \A i \in 1..Len(CallLog) : Ok(CallLog[i])
              /\ SinglePayload(result.op) =>
                    result.value = Payload(result.op, Last(CallLog))
              /\ result.op.name = "get_tag" =>
                    result.value \in Range(Page(TagsOf, 0, TagLimit))
              /\ (result.op.name = "get_items" /\ result.op.recursive) =>
                    result.value = FirstPages(DepthFirst(result.op.folder_id, FALSE))

\* A recursive get_items raises on a failed response that is not its first.
C1_Witness ==
    /\ Ended
    /\ result.op.name = "get_items"
    /\ Len(CallLog) > 2
    /\ Last(CallLog).resp.status # HttpOk
    /\ Last(CallLog).resp.success
    /\ result.kind = "raise"

(***************************************************************************)
(* C2.  As claimed: an error raised for an API-level failure carries the   *)
(* error code of the vendor's response, in both cases of failure.          *)
(***************************************************************************)
C2_AsClaimed ==
    (Ended /\ result.kind = "raise" /\ ~NotFound /\ ~Last(CallLog).resp.success) =>
        result.err.code = Last(CallLog).resp.code

(***************************************************************************)
(* C2, amended.  An error raised because the success flag is cleared (on   *)
(* status 200) carries the vendor's error code; an error raised because    *)
(* the status is not 200 carries the HTTP status instead, whatever the     *)
(* response's error code.                                                  *)
(***************************************************************************)
C2_ErrorCode ==
    (Ended /\ result.kind = "raise" /\ ~NotFound) =>
        LET r == Last(CallLog).resp
        IN IF r.status # HttpOk
           THEN result.err.msg = "Request failed" /\ result.err.code = r.status
           ELSE /\ ~r.success
                /\ result.err.msg # "Request failed"
                /\ result.err.code = r.code

\* A non-200 response with an error code of the vendor has been raised on.
C2_Witness ==
    /\ Ended
    /\ result.kind = "raise"
    /\ Last(CallLog).resp.status # HttpOk
    /\ ~Last(CallLog).resp.success
    /\ Last(CallLog).resp.code \in ErrorCodes

(***************************************************************************)
(* C3.  A recursive get_items that returns, returns each item of the       *)
(* folder and of its descendants, once: none is left out and none is       *)
(* returned twice.                                                         *)
(***************************************************************************)
ReturnedWalk ==
    Ended /\ result.kind = "return" /\ result.op.name = "get_items" /\ result.op.recursive

C3_AllItemsOnce ==
    ReturnedWalk =>
        /\ NoDup(result.value)
        /\ Range(result.value) = SubtreeItems(result.op.folder_id)

\* What the code does: it returns no item twice and only items of the
\* subtree, and all of them when every list of the subtree fits the one page
\* of 100 the library asks for (it asks for no further page).
PagedAggregates ==
    ReturnedWalk =>
        /\ NoDup(result.value)
        /\ Range(result.value) \subseteq SubtreeItems(result.op.folder_id)
        /\ FitsPages(result.op.folder_id) =>
              Range(result.value) = SubtreeItems(result.op.folder_id)

(***************************************************************************)
(* C4.  When its tag-list request succeeds, get_tag returns a tag of the   *)
(* service named tag_name if the service holds one, and raises "not found" *)
(* only when it holds none.                                                *)
(***************************************************************************)
TagLookedUp == Ended /\ result.op.name = "get_tag" /\ Ok(Last(CallLog))

Named(tags, name) == {i \in 1..Len(tags) : tags[i].name = name}

C4_FoundIfPresent ==
    TagLookedUp =>
        IF Named(TagsOf, result.op.tag_name) # {}
        THEN /\ result.kind = "return"
             /\ result.value \in Range(TagsOf)
             /\ result.value.name = result.op.tag_name
        ELSE NotFound

\* What the code does: it returns the first tag of that name among the first
\* 100 tags the service lists, and raises "not found" when none of these has
\* the name.
PagedTagLookup ==
    TagLookedUp =>
        LET page == Page(TagsOf, 0, TagLimit)
            hits == Named(page, result.op.tag_name)
        IN IF hits # {}
           THEN /\ result.kind = "return"
                /\ result.value.name = result.op.tag_name
                /\ \E i \in hits : result.value = page[i] /\ \A j \in hits : i <= j
           ELSE NotFound /\ result.err.name = result.op.tag_name

(***************************************************************************)
(* C5.  In the batch tagger, once authentication has succeeded, the teams  *)
(* are processed once each in the order of the mapping, whatever happens   *)
(* to the teams before: a failed API call of a team is caught and printed  *)
(* to standard error, the next team follows, and the exit code is 0.       *)
(***************************************************************************)
\* The teams process_team has begun for, from the lines it prints.
Processed ==
    LET l == SelectIn(stdout, {i \in 1..Len(stdout) : stdout[i].text = "Processing team"})
    IN [i \in 1..Len(l) |-> l[i].arg]

\* The teams whose error the except clause of process_team has printed.
Reported ==
    LET l == SelectIn(stderr,
                 {i \in 1..Len(stderr) : stderr[i].text = "Error processing team"})
    IN [i \in 1..Len(l) |-> l[i].team]

TeamLog(t) == SelectIn(log, {i \in 1..Len(log) : log[i].team = t})

TeamFailure(t) == \E i \in 1..Len(log) : log[i].team = t /\ ~Ok(log[i])

Authenticated == Len(log) > 0 /\ Ok(log[1])

EnvComplete == Range(required_env) \subseteq env

C6_ExitCodes ==
    prog = "AddTags" =>
        /\ ~EnvComplete => log = <<>>
        /\ (log # <<>> /\ ~Ok(log[1])) => (Len(log) = 1 /\ Processed = <<>>)
        /\ pc = "exited" =>
              exitCode = IF ~EnvComplete \/ ~Authenticated THEN 1 ELSE 0

\* Authentication has failed and the tagger has ended.
C6_Witness ==
    /\ prog = "AddTags"
    /\ pc = "exited"
    /\ exitCode = 1
    /\ Len(log) = 1
    /\ log[1].req.method = "login"

(***************************************************************************)
(* C7.  As claimed: every call of a library function issues exactly one    *)
(* HTTP request before it returns or raises.                               *)
(***************************************************************************)
C7_AsClaimed == Ended => Len(CallLog) = 1

(***************************************************************************)
(* C7, amended.  Every call of a library function other than get_items     *)
(* with recursive=True issues exactly one HTTP request before it returns   *)
(* or raises.  get_items with recursive=True issues at least one, and at   *)
(* least two before it returns: an item-list request and a folder-list     *)
(* request for the folder, and the same for each folder it goes down to.   *)
(***************************************************************************)
C7_Requests ==
    Ended =>
        IF result.op.name = "get_items" /\ result.op.recursive
        THEN /\ Len(CallLog) >= 1
             /\ result.kind = "return" => Len(CallLog) >= 2
        ELSE Len(CallLog) = 1

\* A get_items with recursive=False has returned.
C7_Witness ==
    /\ Ended
    /\ result.op.name = "get_items"
    /\ ~result.op.recursive
    /\ result.kind = "return"
    /\ Len(CallLog) = 1

(***************************************************************************)
(* C8.  In a run of the batch tagger or of the tag-dump script, the first  *)
(* request is the login, no other request is issued unless it succeeded,   *)
(* and every other request carries the sid the login's response returned.  *)
(***************************************************************************)
C8_Session ==
    prog \in {"AddTags", "UpdateTagsList"} =>
        \A i \in 1..Len(log) :
            IF i = 1
            THEN log[i].req.method = "login"
            ELSE /\ log[i].req.method # "login"
                 /\ Ok(log[1])
                 /\ log[1].sid \in Sids
                 /\ log[i].req.sid = log[1].sid

\* The second team's add_tag request has been issued under the sid "sidB".
C8_Witness ==
    /\ prog = "AddTags"
    /\ log # <<>>
    /\ log[1].sid = "sidB"
    /\ Last(log).req.method = "add_tag"
    /\ Last(log).team = 2

(***************************************************************************)
(* C9.  An add_tag request of process_team is the last request made for    *)
(* its team (so there is at most one); before it come, all answered with   *)
(* success, the requests of the recursive listing of the team's folder and *)
(* then the tag-list request; it carries the ids of all the items listed   *)
(* and the id of the tag named after the team.  No request made for a team *)
(* follows one that failed.                                                *)
(***************************************************************************)
C9_TagAfterListing ==
    prog = "AddTags" =>
        \A t \in 1..Len(team_folders_id) :
            LET l == TeamLog(t)
                f == team_folders_id[t].folder
                walk == DepthFirst(f, FALSE)
                listed == FirstPages(walk)
                page == Page(TagsOf, 0, TagLimit)
            IN \A i \in 1..Len(l) :
                 /\ i < Len(l) => Ok(l[i])
                 /\ l[i].req.method = "add_tag" =>
                      /\ i = Len(l)
                      /\ Requests(SubSeq(l, 1, i - 1)) =
                            WalkRequests(sid, walk) \o <<TagListRequest(sid)>>
                      /\ l[i].req.item_ids = [k \in 1..Len(listed) |-> listed[k].id]
                      /\ \E k \in Named(page, team_folders_id[t].team) :
                            l[i].req.tag_ids = <<page[k].id>>

\* The second team's items, of two folders or more, have been tagged.
C9_Witness ==
    /\ prog = "AddTags"
    /\ log # <<>>
    /\ Last(log).req.method = "add_tag"
    /\ Last(log).team = 2
    /\ Ok(Last(log))
    /\ Len(Last(log).req.item_ids) >= 2

(***************************************************************************)
(* C10.  A recursive get_items that returns has issued one item-list       *)
(* request and one folder-list request for the folder and for each of its  *)
(* descendants, each once, in depth-first order; a get_items with          *)
(* recursive=False issues one item-list request and no other, and returns  *)
(* only items that are directly in the folder.  (That every call ends is   *)
(* Terminates, below.)                                                     *)
(***************************************************************************)
FlatListing ==
    (Ended /\ result.op.name = "get_items" /\ ~result.op.recursive) =>
        /\ Requests(CallLog) =
              << Request("SYNO.Foto.Browse.Item", "list", result.op.sid,
                         result.op.folder_id, 0, ItemLimit, <<>>, <<>>, "", "") >>
        /\ result.kind = "return" =>
              /\ Range(result.value) \subseteq Range(ItemsOf(result.op.folder_id))
              /\ NoDup(result.value)

C10_WalkEveryFolder ==
    /\ FlatListing
    /\ ReturnedWalk =>
          LET fs == DepthFirst(result.op.folder_id, TRUE)
          IN /\ Requests(CallLog) = WalkRequests(result.op.sid, fs)
             /\ NoDup(fs)
             /\ Range(fs) = Subtree(result.op.folder_id)

\* What the code does: a walk that returns has visited, once each and in
\* depth-first order, the folder and the folders reached through the first
\* 100 subfolders of a folder visited; these are all the folders of the
\* subtree when no folder has more than 100 subfolders.
PagedWalk ==
    ReturnedWalk =>
        LET f == result.op.folder_id
            fs == DepthFirst(f, FALSE)
        IN /\ Requests(CallLog) = WalkRequests(result.op.sid, fs)
           /\ NoDup(fs)
           /\ Range(fs) \subseteq Subtree(f)
           /\ (\A g \in Subtree(f) : Len(ChildrenOf(g)) <= FolderLimit) =>
                 Range(fs) = Subtree(f)

\* Every run ends: get_items ends on every forest of folders.
Terminates == <>Done

====
